---- MODULE Spec2Model ----
(***************************************************************************)
(* Model of scripts/combine/pullsAndImpacts.py: the table that             *)
(* readFitInfoFromFile derives from a fit result, the merge / sort /       *)
(* truncation / file writing of producePlots, and the main program that    *)
(* invokes producePlots per parameter of interest (POI).                   *)
(*                                                                         *)
(* Strings the code inspects (POI names, labels, regex filters) are        *)
(* sequences of lexical tokens, cut so that every substring the code tests *)
(* ("MeV", "Diff", "_", "_noi", "massShift", ...) falls on token           *)
(* boundaries.  Column names and file extensions are plain strings.        *)
(* Floats are tagged values over a fixed-point grid of 1/Unit.             *)
(***************************************************************************)
EXTENDS Integers, Sequences, FiniteSets, TLC

VARIABLES
    args,               \* the parsed command line (parseArgs)
    fitresult,          \* the input fit result
    fitresult_ref,      \* the reference fit result, or NoFit
    grouping,           \* groupings[args.grouping], or NoGrouping
    translate_label,    \* the label translation dictionary
    pc,                 \* position of the main program
    pois,               \* the list of POIs of the main loop
    ipoi,               \* index of the POI the loop is at
    inv,                \* the last producePlots invocation and what it did
    calls,              \* the producePlots invocations made so far, in order
    written,            \* every file write so far, in order
    served,             \* number of dash servers started
    default_extensions, \* the shared default list of writeOutput(extensions=[])
    rd                  \* a direct call of readFitInfoFromFile and its result

vars == <<args, fitresult, fitresult_ref, grouping, translate_label, pc, pois,
          ipoi, inv, calls, written, served, default_extensions, rd>>

(***************************************************************************)
(* Bounds of the model.                                                    *)
(***************************************************************************)
MaxRows == 2
MaxNum == 2
MaxPois == 2

(***************************************************************************)
(* Generic helpers.                                                        *)
(***************************************************************************)
Range(s) == {s[k] : k \in DOMAIN s}

Abs(n) == IF n < 0 THEN -n ELSE n

\* Sequences without repetition, of length 0..n, over the set S.
RECURSIVE DistinctSeqs(_, _)
DistinctSeqs(S, n) ==
    IF n = 0 THEN {<<>>}
    ELSE LET shorter == DistinctSeqs(S, n - 1)
             more == {q \in shorter \X S :
                         Len(q[1]) = n - 1 /\ q[2] \notin Range(q[1])}
         IN  shorter \cup {Append(q[1], q[2]) : q \in more}

(***************************************************************************)
(* Strings as token sequences.                                             *)
(***************************************************************************)
\* Tokens in code-point order ('.' < digits < upper case < '_' < lower case).
Alphabet == <<".", "100", "50", "Diff", "MeV", "Shift", "Total", "W", "_",
              "a", "b", "c", "d", "g", "h", "k", "mass", "noi", "sumxsec",
              "width", "x">>

TokRank(t) == CHOOSE k \in DOMAIN Alphabet : Alphabet[k] = t

\* Python's str < str.
RECURSIVE StrLess(_, _)
StrLess(s, t) ==
    IF t = <<>> THEN FALSE
    ELSE IF s = <<>> THEN TRUE
    ELSE IF Head(s) = Head(t) THEN StrLess(Tail(s), Tail(t))
    ELSE TokRank(Head(s)) < TokRank(Head(t))

\* s.startswith(p)
StartsWith(s, p) == Len(p) <= Len(s) /\ SubSeq(s, 1, Len(p)) = p

\* p in s  (substring test)
Contains(s, p) ==
    \E k \in 0..(Len(s) - Len(p)) : SubSeq(s, k + 1, k + Len(p)) = p

\* s.replace(p, ""): every occurrence of p removed, left to right.
RECURSIVE Remove(_, _)
Remove(s, p) ==
    IF s = <<>> \/ p = <<>> THEN s
    ELSE IF StartsWith(s, p) THEN Remove(SubSeq(s, Len(p) + 1, Len(s)), p)
    ELSE <<Head(s)>> \o Remove(Tail(s), p)

\* s.split("_")[-1]
RECURSIVE SplitLast(_)
SplitLast(s) ==
    IF \E k \in DOMAIN s : s[k] = "_"
    THEN SplitLast(Tail(s))
    ELSE s

\* the numeric value of a token that is a run of digits, 0 for any other
DigitValue(t) == IF t = "100" THEN 100 ELSE IF t = "50" THEN 50 ELSE 0

IsDigits(t) == t \in {"100", "50"}

(***************************************************************************)
(* Floats (numpy float64): a finite value v stands for v / Unit; the       *)
(* non-finite values are kept apart.                                       *)
(***************************************************************************)
Unit == 10

Fin(v) == [k |-> "fin", v |-> v]
NaN == [k |-> "nan", v |-> 0]
PosInf == [k |-> "inf", v |-> 0]
NegInf == [k |-> "-inf", v |-> 0]

IsFinite(x) == x.k = "fin"
IsNaN(x) == x.k = "nan"

\* integer division rounding toward zero
QuotTrunc(a, b) ==
    IF (a < 0) = (b < 0) THEN Abs(a) \div Abs(b) ELSE -(Abs(a) \div Abs(b))

\* floor of the square root of a natural number
ISqrt(n) == CHOOSE r \in 0..n : r * r <= n /\ n < (r + 1) * (r + 1)

\* the value kept with its sign
FAbs_Signed(x) == x

\* np.abs
FAbs(x) == IF IsFinite(x) THEN Fin(Abs(x.v)) ELSE IF IsNaN(x) THEN NaN ELSE PosInf

\* x - y
FSub(x, y) ==
    IF IsFinite(x) /\ IsFinite(y) THEN Fin(x.v - y.v)
    ELSE IF IsNaN(x) \/ IsNaN(y) \/ x = y THEN NaN
    ELSE IF IsFinite(y) THEN x
    ELSE IF y = PosInf THEN NegInf ELSE PosInf

\* x * y
FMul(x, y) ==
    IF IsFinite(x) /\ IsFinite(y) THEN Fin(QuotTrunc(x.v * y.v, Unit)) ELSE NaN

\* x ** 0.5 on a float64 column: nan for a negative base
FSqrt(x) ==
    IF ~IsFinite(x) THEN x
    ELSE IF x.v < 0 THEN NaN
    ELSE Fin(ISqrt(x.v * Unit))

\* x / y on a float64 column: division by zero gives +-inf, and nan for 0/0
FDiv(x, y) ==
    IF IsNaN(x) \/ IsNaN(y) THEN NaN
    ELSE IF ~IsFinite(x) THEN (IF IsFinite(y) THEN x ELSE NaN)
    ELSE IF ~IsFinite(y) THEN Fin(0)
    ELSE IF y.v = 0
         THEN (IF x.v = 0 THEN NaN ELSE IF x.v > 0 THEN PosInf ELSE NegInf)
    ELSE Fin(QuotTrunc(x.v * Unit, y.v))

\* the array left as it is read
FScale_Unscaled(x, scale) == x

\* array * scale, the scale being the ratio scale.n / scale.d
FScale(x, scale) ==
    IF IsFinite(x) THEN Fin(QuotTrunc(x.v * scale.n, scale.d)) ELSE x

\* x < y on finite floats (False when either side is nan)
FLess(x, y) ==
    IF IsNaN(x) \/ IsNaN(y) THEN FALSE
    ELSE IF x = y THEN FALSE
    ELSE IF x = NegInf \/ y = PosInf THEN TRUE
    ELSE IF x = PosInf \/ y = NegInf THEN FALSE
    ELSE x.v < y.v

\* Series.fillna(value) on one cell
FillNA(x, value) == IF x = NaN THEN value ELSE x

(***************************************************************************)
(* readFitInfoFromFile                                                     *)
(***************************************************************************)
Sentinel == 999

NeutralColor == "#377eb8"
PositiveColor == "#e41a1c"

NoGrouping == {}

\* re.match(f, label): the pattern is matched at the start of the label and
\* need not reach its end; '.' matches any one token.
ReMatch(f, label) ==
    /\ Len(f) <= Len(label)
    /\ \A k \in DOMAIN f : f[k] = "." \/ f[k] = label[k]

\* all(re.match(f, label) for f in filters)
AnyMatch_All(filters, label) == \A k \in DOMAIN filters : ReMatch(filters[k], label)

\* any(re.match(f, label) for f in filters)
AnyMatch(filters, label) == \E k \in DOMAIN filters : ReMatch(filters[k], label)

\* combinetf_input.read_impacts_poi: the (impact, label) pairs of the file,
\* per group (with the Total) or per nuisance parameter.
ReadImpactsPoi(rf, group) == IF group THEN rf.groups ELSE rf.nuis

\* the loop with a row kept as soon as one of the two conditions holds
RECURSIVE FilterLoop_Either(_, _, _, _)
FilterLoop_Either(rows, group, grp, filters) ==
    IF rows = <<>> THEN <<>>
    ELSE LET row == Head(rows)
             rest == FilterLoop_Either(Tail(rows), group, grp, filters)
         IN  IF (group /\ grp # {} /\ row.label \in grp)
                \/ (filters # <<>> /\ \E k \in DOMAIN filters :
                                         ReMatch(filters[k], row.label))
             THEN <<row>> \o rest
             ELSE rest

\* the loop of lines 272-278, over the rows still to visit
RECURSIVE FilterLoop(_, _, _, _)
FilterLoop(rows, group, grp, filters) ==
    IF rows = <<>> THEN <<>>
    ELSE LET row == Head(rows)
             rest == FilterLoop(Tail(rows), group, grp, filters)
         IN  IF group /\ grp # NoGrouping /\ row.label \notin grp THEN rest
             ELSE IF filters # <<>> /\ ~AnyMatch(filters, row.label) THEN rest
             ELSE <<row>> \o rest

\* lines 269-280
FilterRows(rows, group, grp, filters) ==
    IF (group /\ grp # NoGrouping) \/ filters # <<>>
    THEN FilterLoop(rows, group, grp, filters)
    ELSE rows

\* translate_label.get(l, l)
TranslateLabel(l) ==
    IF l \in DOMAIN translate_label THEN translate_label[l] ELSE l

\* df['newpull'] = df['pull'] / (1-df["constraint"]**2)**0.5
NewPullRaw(pull, constraint) ==
    FDiv(pull, FSqrt(FSub(Fin(Unit), FMul(constraint, constraint))))

\* .replace([np.inf, -np.inf], 999), nan left in place
ReplaceNonFinite_InfOnly(x) == IF IsFinite(x) \/ IsNaN(x) THEN x ELSE Fin(Sentinel * Unit)

\* .replace([np.inf, -np.inf, np.nan], 999)
ReplaceNonFinite(x) == IF IsFinite(x) THEN x ELSE Fin(Sentinel * Unit)

\* the colour of one row (lines 293-296)
ImpactColor(impact, group) ==
    IF ~group /\ FLess(Fin(0), impact) THEN PositiveColor ELSE NeutralColor

GroupedColumns == {"impact", "label", "absimpact", "impact_color"}

UngroupedColumns == GroupedColumns \cup
    {"pull", "constraint", "pull_prefit", "abspull", "newpull"}

\* one row of the table, from one (filtered) row of the file (lines 282-296)
DeriveRow(raw, group, scale) ==
    LET impact == FScale(raw.impact, scale)
        base == [impact |-> impact,
                 label |-> TranslateLabel(raw.label),
                 absimpact |-> FAbs(impact),
                 impact_color |-> ImpactColor(impact, group)]
        pull == FSub(raw.pull, raw.pull_prefit)
    IN  IF group THEN base
        ELSE base @@ [pull |-> pull,
                      constraint |-> raw.constraint,
                      pull_prefit |-> raw.pull_prefit,
                      abspull |-> FAbs(pull),
                      newpull |-> ReplaceNonFinite(NewPullRaw(pull, raw.constraint))]

\* df.drop(df.loc[df['label'].str.contains(poi.replace("_noi",""))].index)
DropPoiRows(rows, poi) ==
    SelectSeq(rows, LAMBDA r : ~Contains(r.label, Remove(poi, <<"_", "noi">>)))

readFitInfoFromFile(rf, poi, group, grp, filters, scale) ==
    LET kept == FilterRows(ReadImpactsPoi(rf, group), group, grp, filters)
        rows == [k \in DOMAIN kept |-> DeriveRow(kept[k], group, scale)]
    IN  [cols |-> IF group THEN GroupedColumns ELSE UngroupedColumns,
         rows |-> IF ~group /\ poi # <<>> THEN DropPoiRows(rows, poi) ELSE rows]

(***************************************************************************)
(* producePlots: the scale of the impacts (lines 349-387)                  *)
(***************************************************************************)
NoPoi == <<>>

NoFit == [file |-> "None"]

\* poi.split("_")[-1] if poi else None
PoiType(poi) == SplitLast(poi)

\* the runs of digits of poi.split("MeV")[0], in order
RECURSIVE DigitsBeforeMeV(_)
DigitsBeforeMeV(s) ==
    IF s = <<>> \/ Head(s) = "MeV" THEN <<>>
    ELSE IF IsDigits(Head(s)) THEN <<DigitValue(Head(s))>> \o DigitsBeforeMeV(Tail(s))
    ELSE DigitsBeforeMeV(Tail(s))

\* conversion_tools.combine_channels(meta, True): channel name -> lumi * 1000
ChannelInfo(rf) == rf.channels

\* lines 351-387: [error, scale], the scale being the ratio n / d
PoiScale(rf, poi) ==
    LET found == DigitsBeforeMeV(poi)
        mev == poi # NoPoi /\ Contains(poi, <<"MeV">>)
        first == IF mev /\ found # <<>>
                 THEN [n |-> found[Len(found)] *
                             (IF Contains(poi, <<"Diff">>) THEN 2 ELSE 1),
                       d |-> 1]
                 ELSE [n |-> 1, d |-> 1]
        ok(scale) == [error |-> "none", scale |-> scale]
        fail(e) == [error |-> e, scale |-> first]
    IN  IF mev /\ found = <<>> THEN fail("IndexError")
        ELSE IF poi # NoPoi /\ StartsWith(poi, <<"mass", "Shift">>) THEN ok(first)
        ELSE IF poi # NoPoi /\ StartsWith(poi, <<"mass", "Diff">>) THEN ok(first)
        ELSE IF poi # NoPoi /\ StartsWith(poi, <<"width">>) THEN ok(first)
        ELSE IF PoiType(poi) \in {<<"pmaskedexp">>, <<"pmaskedexpnorm">>,
                                  <<"sumxsec">>, <<"sumxsecnorm">>}
             THEN IF PoiType(poi) \in {<<"pmaskedexp">>, <<"sumxsec">>}
                  THEN IF Cardinality(DOMAIN ChannelInfo(rf)) = 1
                       THEN IF "chan_13TeV" \in DOMAIN ChannelInfo(rf)
                            THEN ok([n |-> 1, d |-> ChannelInfo(rf)["chan_13TeV"]])
                            ELSE fail("KeyError")
                       ELSE fail("NotImplementedError")
                  ELSE ok(first)
        ELSE IF PoiType(poi) = <<"ratiometaratio">> THEN ok([n |-> 1000, d |-> 1])
        ELSE ok(first)

(***************************************************************************)
(* producePlots: the merge with the reference table (lines 394-401)        *)
(***************************************************************************)
\* the name a column of the right table gets: suffixes=("", "_ref") rename a
\* right column only when the left table has a column of the same name
RefName(col, leftcols) == IF col \in leftcols THEN col \o "_ref" ELSE col

\* a right row under the names it carries in the merged table (label is the key)
RefRow(r, rightcols, leftcols) ==
    LET names == {RefName(c, leftcols) : c \in rightcols \ {"label"}}
    IN  [n \in names |->
            r[CHOOSE c \in rightcols \ {"label"} : RefName(c, leftcols) = n]]

\* the join keys in lexicographic order
RECURSIVE SortedKeys(_)
SortedKeys(S) ==
    IF S = {} THEN <<>>
    ELSE LET least == CHOOSE x \in S : \A y \in S \ {x} : StrLess(x, y)
         IN  <<least>> \o SortedKeys(S \ {least})

RECURSIVE Concat(_)
Concat(ss) == IF ss = <<>> THEN <<>> ELSE Head(ss) \o Concat(Tail(ss))

\* a left join: the keys of the left table only
JoinKeys_Left(df, df_ref) == {r.label : r \in Range(df.rows)}

\* how="outer": the keys of either table
JoinKeys(df, df_ref) ==
    {r.label : r \in Range(df.rows)} \cup {r.label : r \in Range(df_ref.rows)}

\* df.merge(df_ref, how="outer", on="label", suffixes=("","_ref")): a cell the
\* join leaves empty (NaN) is a column missing from the row's domain
Merge(df, df_ref) ==
    LET keys == SortedKeys(JoinKeys(df, df_ref))
        rowsOf(key) ==
            LET left == SelectSeq(df.rows, LAMBDA r : r.label = key)
                right == SelectSeq(df_ref.rows, LAMBDA r : r.label = key)
                pair(l, r) == l @@ RefRow(r, df_ref.cols, df.cols)
            IN  IF right = <<>> THEN left
                ELSE IF left = <<>>
                     THEN [k \in DOMAIN right |->
                              [label |-> key] @@ RefRow(right[k], df_ref.cols, df.cols)]
                ELSE Concat([i \in DOMAIN left |->
                                [j \in DOMAIN right |-> pair(left[i], right[j])]])
    IN  [cols |-> df.cols \cup
                  {RefName(c, df.cols) : c \in df_ref.cols \ {"label"}},
         rows |-> Concat([k \in DOMAIN keys |-> rowsOf(keys[k])])]

\* default_values.get(col, 0)
DefaultValue(col) ==
    IF col \in {"impact_color", "impact_color_ref"} THEN NeutralColor ELSE Fin(0)

StringColumns == {"label", "impact_color", "impact_color_ref"}

\* df[col] = df[col].fillna(value(col)) for every column of the table
FillTable(df, value(_)) ==
    [cols |-> df.cols,
     rows |-> [k \in DOMAIN df.rows |->
                 [c \in df.cols |->
                     IF c \notin DOMAIN df.rows[k] THEN value(c)
                     ELSE IF c \in StringColumns THEN df.rows[k][c]
                     ELSE FillNA(df.rows[k][c], value(c))]]]

ZeroValue(col) == Fin(0)

(***************************************************************************)
(* producePlots: the sort key and the sort (lines 403-418)                 *)
(***************************************************************************)
\* the string args.sort, one of parseArgs' sort_choices
SortName(sort) == IF sort.sfx = "" THEN sort.key ELSE sort.key \o "_" \o sort.sfx

\* < on the cells of one column
CellLess(col, x, y) == IF col \in StringColumns THEN StrLess(x, y) ELSE FLess(x, y)

FMax(x, y) == IF FLess(x, y) THEN y ELSE x
FMin(x, y) == IF FLess(y, x) THEN y ELSE x

\* the table with one more column, computed row by row
WithColumn(df, col, value(_)) ==
    [cols |-> df.cols \cup {col},
     rows |-> [k \in DOMAIN df.rows |-> (col :> value(df.rows[k])) @@ df.rows[k]]]

\* df[f"{key}_diff"] = abs(df[key] - df[f"{key}_ref"])
DiffColumn(df, key) ==
    WithColumn(df, key \o "_diff", LAMBDA r : FAbs(FSub(r[key], r[key \o "_ref"])))

\* df[f"{key}_both"] = df[[key, f"{key}_ref"]].max(axis=1), or .min(axis=1)
BothColumn(df, key, ascending) ==
    WithColumn(df, key \o "_both",
               LAMBDA r : IF ascending THEN FMax(r[key], r[key \o "_ref"])
                          ELSE FMin(r[key], r[key \o "_ref"]))

\* the row goes behind every row that does not have to follow it
RECURSIVE InsertRow(_, _, _, _)
InsertRow(sorted, row, by, ascending) ==
    IF sorted = <<>> THEN <<row>>
    ELSE LET first == Head(sorted)
             before == IF ascending THEN CellLess(by, row[by], first[by])
                       ELSE CellLess(by, first[by], row[by])
         IN  IF before THEN <<row>> \o sorted
             ELSE <<first>> \o InsertRow(Tail(sorted), row, by, ascending)

RECURSIVE SortRows(_, _, _)
SortRows(rows, by, ascending) ==
    IF rows = <<>> THEN <<>>
    ELSE InsertRow(SortRows(SubSeq(rows, 1, Len(rows) - 1), by, ascending),
                   rows[Len(rows)], by, ascending)

\* df.sort_values(by=args.sort, ascending=args.ascending): rows of equal key
\* keep their order (tables of this size are sorted by insertion)
SortValues(df, by, ascending) ==
    [cols |-> df.cols, rows |-> SortRows(df.rows, by, ascending)]

\* lines 403-416: [error, df]
SortStage(df, a) ==
    LET key == a.sort.key
        missing == key \notin df.cols \/ (key \o "_ref") \notin df.cols
        keyed == IF a.sort.sfx = "diff" THEN DiffColumn(df, key)
                 ELSE IF a.sort.sfx = "both" THEN BothColumn(df, key, a.ascending)
                 ELSE df
    IN  IF a.sort.sfx \in {"diff", "both"} /\ missing
        THEN [error |-> "KeyError", df |-> df]
        ELSE IF a.sort.sfx = "diff" /\ key \in StringColumns
        THEN [error |-> "TypeError", df |-> df]
        ELSE IF SortName(a.sort) \notin keyed.cols
        THEN [error |-> "KeyError", df |-> keyed]
        ELSE [error |-> "none",
              df |-> SortValues(keyed, SortName(a.sort), a.ascending)]

(***************************************************************************)
(* plotImpacts and writeOutput                                             *)
(***************************************************************************)
\* max(df[col]) > 0, max(df[col]) == 0
MaxPositive(df, col) == \E k \in DOMAIN df.rows : FLess(Fin(0), df.rows[k][col])
MaxZero(df, col) ==
    ~MaxPositive(df, col) /\ \E k \in DOMAIN df.rows : df.rows[k][col] = Fin(0)

\* plotImpacts: the exception it ends in, or "none" (lines 74-103)
PlotImpactsError(df, pulls) ==
    LET impacts == (\E k \in DOMAIN df.rows : df.rows[k].absimpact # Fin(0))
                   /\ ~args.noImpacts
        include_ref == "impact_ref" \in df.cols \/ "constraint_ref" \in df.cols
        impact_str == IF args.oneSidedImpacts THEN "absimpact" ELSE "impact"
    IN  IF ~pulls /\ ~impacts THEN "ValueError"       \* make_subplots(cols=0)
        ELSE IF impacts /\ include_ref
                /\ MaxPositive(df, impact_str \o "_ref")
                /\ ~MaxPositive(df, impact_str)
        THEN (IF MaxZero(df, impact_str)
              THEN "OverflowError"                    \* int(np.log10(0.))
              ELSE "ValueError")                      \* int(np.log10(x)), x < 0
        ELSE "none"

\* the figure: the labels of the rows it shows, bottom to top
Figure(df) == [k \in DOMAIN df.rows |-> df.rows[k].label]

\* an extension as the code holds it: with its leading dot or without
Ext(e) == [dot |-> FALSE, e |-> e]
DotExt(e) == [dot |-> TRUE, e |-> e]

\* lines 26-28: the list after the extension of outfile is added to it
ExtensionsToWrite(outfile, extensions) ==
    IF DotExt(outfile.e) \notin Range(extensions)
    THEN Append(extensions, DotExt(outfile.e))
    ELSE extensions

\* lines 30-31
OutputName(outfile, postfix) ==
    IF postfix # NoPoi THEN outfile.name \o <<"_">> \o postfix ELSE outfile.name

\* writeOutput, lines 25-41: the list `extensions` as the call leaves it, and
\* the files written, in order
writeOutput(fig, outfile, extensions, postfix) ==
    LET exts == ExtensionsToWrite(outfile, extensions)
    IN  [extensions |-> exts,
         writes |-> [k \in DOMAIN exts |->
                        [name |-> OutputName(outfile, postfix),
                         ext |-> exts[k].e,
                         how |-> IF exts[k].e = "html" THEN "write_html"
                                 ELSE "write_image",
                         fig |-> fig]]]

(***************************************************************************)
(* producePlots: the output stage (lines 420-486) and the whole function   *)
(***************************************************************************)
\* output_tools.make_plot_dir(args.outFolder, ""): the directory, ending in "/"
Outdir == <<"plots/">>

\* df[:num], the first rows
LastRows_First(df, num) ==
    [cols |-> df.cols,
     rows |-> IF num >= Len(df.rows) THEN df.rows ELSE SubSeq(df.rows, 1, num)]

\* df[-num:] for num > 0
LastRows(df, num) ==
    [cols |-> df.cols,
     rows |-> IF num >= Len(df.rows) THEN df.rows
              ELSE SubSeq(df.rows, Len(df.rows) - num + 1, Len(df.rows))]

\* df.size
Size(df) == Len(df.rows) * Cardinality(df.cols)

\* lines 464-469: the path split into its name and its extension
OutputFile(a, group) ==
    [name |-> Outdir \o a.outputFile.stem \o
              (IF group THEN <<"_", "group">> ELSE <<>>),
     e |-> a.outputFile.e]

\* line 470
Extensions(a) == <<Ext(a.outputFile.e)>> \o a.otherExtensions

\* not args.noPulls and not group
Pulls(a, group) == ~a.noPulls /\ ~group

\* line 471
Skim(df, a) == a.num # 0 /\ a.num < Size(df)

\* line 473
SkimHtml(df, a) ==
    Skim(df, a) /\ Ext("html") \in Range(Extensions(a)) /\ Len(Extensions(a)) > 1

\* what the output stage has done so far: the exception raised, the rows
\* handed to plotImpacts last, the files written, the default list of
\* writeOutput, and the extensions and the path the last writeOutput is to get
Progress(error, plotted, writes, defexts, extensions, outfile) ==
    [error |-> error, plotted |-> plotted, writes |-> writes,
     default_extensions |-> defexts, extensions |-> extensions,
     outfile |-> outfile]

\* lines 474-478, given what plotImpacts and writeOutput do there
HtmlOfFullTable(error, html, others, df, outfile, defexts) ==
    IF error # "none"
    THEN Progress(error, df.rows, <<>>, defexts, others, outfile)
    ELSE IF others = <<>>
    THEN Progress("IndexError", df.rows, html.writes, html.extensions, others,
                  outfile)
    ELSE Progress("none", df.rows, html.writes, html.extensions, others,
                  [name |-> outfile.name, e |-> others[1].e])

\* lines 471-478 without the plot of the full table for html
BeforeSkim_NoHtml(df, a, poi, group, defexts) ==
    Progress("none", <<>>, <<>>, defexts, Extensions(a), OutputFile(a, group))

\* lines 471-478
BeforeSkim(df, a, poi, group, defexts) ==
    IF SkimHtml(df, a)
    THEN HtmlOfFullTable(
             PlotImpactsError(df, Pulls(a, group)),
             writeOutput(Figure(df),
                         [name |-> OutputFile(a, group).name, e |-> "html"],
                         defexts, poi),
             SelectSeq(Extensions(a), LAMBDA x : x # Ext("html")),
             df, OutputFile(a, group), defexts)
    ELSE Progress("none", <<>>, <<>>, defexts, Extensions(a), OutputFile(a, group))

\* lines 481-482, given what plotImpacts and writeOutput do there
LastPlot(before, shown, error, last) ==
    IF before.error # "none" THEN before
    ELSE IF error # "none"
    THEN Progress(error, shown.rows, before.writes, before.default_extensions,
                  before.extensions, before.outfile)
    ELSE Progress("none", shown.rows, before.writes \o last.writes,
                  before.default_extensions, before.extensions, before.outfile)

\* lines 479-482
AfterSkim(before, shown, a, poi, group) ==
    LastPlot(before, shown,
             PlotImpactsError(shown, Pulls(a, group)),
             IF before.error = "none"
             THEN writeOutput(Figure(shown), before.outfile, before.extensions, poi)
             ELSE [extensions |-> <<>>, writes |-> <<>>])

\* lines 459-482
OutputMode(df, a, poi, group, defexts) ==
    AfterSkim(BeforeSkim(df, a, poi, group, defexts),
              IF Skim(df, a) THEN LastRows(df, a.num) ELSE df,
              a, poi, group)

EmptyTable == [cols |-> {}, rows |-> <<>>]

\* what one invocation did: the exception it ended in ("none": it returned),
\* the statement group it reached, its table (as of line 418, or as of the
\* raise), the rows handed to the last plotImpacts, the files written, the
\* servers started and the default list of writeOutput as it leaves it
Outcome(poi, group, error, stage, df, plotted, writes, nserved, defexts) ==
    [poi |-> poi, group |-> group, error |-> error, stage |-> stage, df |-> df,
     plotted |-> plotted, writes |-> writes, served |-> nserved,
     default_extensions |-> defexts]

\* lines 389-392
ReadInput(rf, a, poi, group, grp, scale) ==
    IF ~(group /\ a.output_mode = "output")
    THEN readFitInfoFromFile(rf, poi, FALSE, NoGrouping, <<>>, scale)
    ELSE readFitInfoFromFile(rf, poi, TRUE, grp, <<>>, scale)

\* lines 394-401
MergeReference(df, rf_ref, poi, group, grp, scale) ==
    IF rf_ref.file # "None"
    THEN FillTable(Merge(df, readFitInfoFromFile(rf_ref, poi, group, grp, <<>>,
                                                 scale)),
                   DefaultValue)
    ELSE df

\* the output stage with every mode but "interactive" taken for "output"
MakePlots_AnyMode(df, out, a, poi, group, defexts) ==
    IF a.output_mode = "interactive"
    THEN Outcome(poi, group, "none", "interactive", df, <<>>, <<>>, 1, defexts)
    ELSE Outcome(poi, group, out.error, "output", df, out.plotted, out.writes, 0,
                 out.default_extensions)

\* lines 420-486, on the table of line 418
MakePlots(df, out, a, poi, group, defexts) ==
    IF a.output_mode = "interactive"
    THEN Outcome(poi, group, "none", "interactive", df, <<>>, <<>>, 1, defexts)
    ELSE IF a.output_mode = "output"
    THEN Outcome(poi, group, out.error, "output", df, out.plotted, out.writes, 0,
                 out.default_extensions)
    ELSE Outcome(poi, group, "ValueError", "mode", df, <<>>, <<>>, 0, defexts)

\* lines 403-486, given the outcome of the sort
SortedPlots(st, final, a, poi, group, defexts) ==
    IF st.error # "none"
    THEN Outcome(poi, group, st.error, "sort", st.df, <<>>, <<>>, 0, defexts)
    ELSE MakePlots(final, OutputMode(final, a, poi, group, defexts),
                   a, poi, group, defexts)

\* lines 389-486, given the table of line 401
MergedPlots(st, a, poi, group, defexts) ==
    SortedPlots(st, FillTable(st.df, ZeroValue), a, poi, group, defexts)

\* lines 349-486, given the outcome of lines 349-387
ScaledPlots(sc, rf, a, poi, group, rf_ref, grp, defexts) ==
    IF sc.error # "none"
    THEN Outcome(poi, group, sc.error, "scale", EmptyTable, <<>>, <<>>, 0, defexts)
    ELSE MergedPlots(
             SortStage(MergeReference(ReadInput(rf, a, poi, group, grp, sc.scale),
                                      rf_ref, poi, group, grp, sc.scale), a),
             a, poi, group, defexts)

producePlots(rf, a, poi, group, rf_ref, grp, defexts) ==
    ScaledPlots(PoiScale(rf, poi), rf, a, poi, group, rf_ref, grp, defexts)

(***************************************************************************)
(* The main program (lines 489-521)                                        *)
(***************************************************************************)
NoOutcome ==
    Outcome(NoPoi, FALSE, "none", "never", EmptyTable, <<>>, <<>>, 0, <<>>)

NoRead == [called |-> FALSE]

\* one call of producePlots from the main program; an exception it raises is
\* not caught and ends the program
Invoke(poi, group, grp, nextpc, nextpoi) ==
    \E r \in {producePlots(fitresult, args, poi, group, fitresult_ref, grp,
                          default_extensions)} :
        /\ inv' = r
        /\ calls' = Append(calls, [poi |-> poi, group |-> group])
        /\ written' = written \o
               [k \in DOMAIN r.writes |-> r.writes[k] @@ [call |-> Len(calls) + 1]]
        /\ served' = served + r.served
        /\ default_extensions' = r.default_extensions
        /\ pc' = IF r.error = "none" THEN nextpc ELSE "error"
        /\ ipoi' = IF r.error = "none" THEN nextpoi ELSE ipoi

\* lines 504-507: one pulls plot, ungrouped, then exit()
NoImpactsPlot ==
    /\ pc = "main"
    /\ args.noImpacts
    /\ Invoke(NoPoi, FALSE, NoGrouping, "done", ipoi)
    /\ UNCHANGED <<args, fitresult, fitresult_ref, grouping, translate_label,
                   pois, rd>>

\* lines 509-514, the loop entered at the grouped plot of the first POI
Begin_GroupFirst ==
    /\ pc = "main"
    /\ ~args.noImpacts
    /\ pois' = IF args.poi # NoPoi THEN <<args.poi>> ELSE fitresult.pois
    /\ ipoi' = 1
    /\ pc' = IF pois' = <<>> THEN "done" ELSE "group"
    /\ UNCHANGED <<args, fitresult, fitresult_ref, grouping, translate_label,
                   inv, calls, written, served, default_extensions, rd>>

\* lines 509-514: the POIs to loop over
Begin ==
    /\ pc = "main"
    /\ ~args.noImpacts
    /\ pois' = IF args.poi # NoPoi THEN <<args.poi>> ELSE fitresult.pois
    /\ ipoi' = 1
    /\ pc' = IF pois' = <<>> THEN "done" ELSE "ungrouped"
    /\ UNCHANGED <<args, fitresult, fitresult_ref, grouping, translate_label,
                   inv, calls, written, served, default_extensions, rd>>

\* lines 516-518
UngroupedPlot ==
    /\ pc = "ungrouped"
    /\ IF args.mode \in {"both", "ungrouped"}
       THEN Invoke(pois[ipoi], FALSE, NoGrouping, "group", ipoi)
       ELSE /\ pc' = "group"
            /\ UNCHANGED <<ipoi, inv, calls, written, served, default_extensions>>
    /\ UNCHANGED <<args, fitresult, fitresult_ref, grouping, translate_label,
                   pois, rd>>

\* lines 519-521, and the step to the next POI
GroupPlot ==
    /\ pc = "group"
    /\ LET nextpc == IF ipoi < Len(pois) THEN "ungrouped" ELSE "done"
       IN  IF args.mode \in {"both", "group"}
           THEN Invoke(pois[ipoi], TRUE, grouping, nextpc, ipoi + 1)
           ELSE /\ pc' = nextpc
                /\ ipoi' = ipoi + 1
                /\ UNCHANGED <<inv, calls, written, served, default_extensions>>
    /\ UNCHANGED <<args, fitresult, fitresult_ref, grouping, translate_label,
                   pois, rd>>

Next == NoImpactsPlot \/ Begin \/ UngroupedPlot \/ GroupPlot

(***************************************************************************)
(* Inputs: fit results, command lines.                                     *)
(***************************************************************************)
MassPoi == <<"mass", "Shift", "100", "MeV", "_", "noi">>
XsecPoi == <<"W", "_", "sumxsec">>

Nuisance(label, impact, pull, pull_prefit, constraint) ==
    [label |-> label, impact |-> Fin(impact), pull |-> Fin(pull),
     pull_prefit |-> Fin(pull_prefit), constraint |-> Fin(constraint)]

\* nuisance parameters of the input file: a well constrained one, one at
\* constraint 1 with a negative pull, and the POI's own parameter with a
\* constraint above 1
NuisProtos ==
    {Nuisance(<<"a">>, 10, 5, 0, 6),
     Nuisance(<<"a", "b">>, -20, -12, 0, Unit),
     Nuisance(<<"mass", "Shift", "100", "MeV">>, 0, 4, 0, 12)}

\* nuisance parameters of the reference file: one the input file may have
\* too (at constraint 1 with a zero pull), one it never has (at constraint 1
\* with a positive pull)
RefProtos ==
    {Nuisance(<<"a">>, -30, 3, 3, Unit),
     Nuisance(<<"d">>, 40, 7, 0, Unit)}

Group(label, impact) == [label |-> label, impact |-> Fin(impact)]

GroupProtos == {Group(<<"g">>, 7), Group(<<"h">>, 2), Group(<<"Total">>, 9)}

InputGroups ==
    <<Group(<<"g">>, 7), Group(<<"h">>, 2), Group(<<"Total">>, 9)>>

RefGroups ==
    <<Group(<<"g">>, 4), Group(<<"k">>, 0), Group(<<"Total">>, 8)>>

InputNuisances ==
    <<Nuisance(<<"a">>, 10, 5, 0, 6),
      Nuisance(<<"a", "b">>, -20, -12, 0, Unit),
      Nuisance(<<"b">>, 5, 3, 3, Unit)>>

RefNuisances ==
    <<Nuisance(<<"a">>, -30, 2, 0, 8),
      Nuisance(<<"a", "b">>, 25, 7, 0, Unit)>>

\* channel name -> lumi * 1000
OneChannel == [chan_13TeV |-> 2]
TwoChannels == [chan_13TeV |-> 2, chan_5TeV |-> 3]

Fit(file, nuis, groups, channels, poinames) ==
    [file |-> file, nuis |-> nuis, groups |-> groups, channels |-> channels,
     pois |-> poinames]

\* tables of 1..MaxRows parameters with distinct names
Tables(protos) == DistinctSeqs(protos, MaxRows) \ {<<>>}

\* parseArgs, lines 301-305
SortColumns == {"label", "pull", "abspull", "constraint", "absimpact"}
SortChoices == [key : SortColumns, sfx : {"", "diff", "ref", "both"}]

Args(sort, ascending, mode, noImpacts, poi, output_mode, output) ==
    [sort |-> sort, ascending |-> ascending, mode |-> mode,
     noImpacts |-> noImpacts, poi |-> poi, output_mode |-> output_mode,
     outputFile |-> output.outputFile,
     otherExtensions |-> output.otherExtensions,
     num |-> output.num, noPulls |-> FALSE, oneSidedImpacts |-> FALSE]

\* the options of the "output" subcommand (lines 327-333); num = 0 stands for
\* no -n (None) as for -n 0
OutputOptions(e, others, num) ==
    [outputFile |-> [stem |-> <<"test">>, e |-> e],
     otherExtensions |-> others, num |-> num]

DefaultOutput == OutputOptions("html", <<>>, 0)

DefaultSort == [key |-> "absimpact", sfx |-> ""]

\* the state of the program when the main block starts
Start ==
    /\ pc = "main"
    /\ pois = <<>>
    /\ ipoi = 0
    /\ inv = NoOutcome
    /\ calls = <<>>
    /\ written = <<>>
    /\ served = 0
    /\ default_extensions = <<>>
    /\ rd = NoRead

(***************************************************************************)
(* Spec: runs of the main program over the command lines that decide which *)
(* invocations are made, how they end and which files they write.          *)
(***************************************************************************)
RunPois == {MassPoi, XsecPoi}

OutputChoices ==
    {OutputOptions(e, others, num) :
        e \in {"html", "pdf"},
        others \in {<<>>, <<Ext("pdf")>>, <<Ext("html")>>,
                    <<Ext("png"), Ext("html")>>},
        num \in 0..MaxNum}

\* the output mode with the options its subcommand has
ModeChoices ==
    {<<"output", o>> : o \in OutputChoices} \cup
    {<<"interactive", DefaultOutput>>, <<"None", DefaultOutput>>}

Init ==
    /\ Start
    /\ \E channels \in {OneChannel, TwoChannels},
          poinames \in DistinctSeqs(RunPois, MaxPois) :
          fitresult = Fit("input", InputNuisances, InputGroups, channels, poinames)
    /\ fitresult_ref \in
           {NoFit, Fit("reference", RefNuisances, RefGroups, OneChannel, <<>>)}
    /\ grouping = {<<"g">>, <<"Total">>}
    /\ translate_label = <<>>
    /\ \E mode \in {"group", "ungrouped", "both"},
          noImpacts \in BOOLEAN,
          poi \in {NoPoi, XsecPoi},
          m \in ModeChoices :
          args = Args(DefaultSort, TRUE, mode, noImpacts, poi, m[1], m[2])

Spec == Init /\ [][Next]_vars

(***************************************************************************)
(* SpecTables: the same program over the inputs that shape the table: the  *)
(* rows of the two files, the sort field and direction, the row limit.     *)
(***************************************************************************)
InitTables ==
    /\ Start
    /\ \E nuis \in Tables(NuisProtos) :
          fitresult = Fit("input", nuis, InputGroups, OneChannel, <<MassPoi>>)
    /\ \/ fitresult_ref = NoFit
       \/ \E nuis \in Tables(RefProtos) :
             fitresult_ref = Fit("reference", nuis, RefGroups, OneChannel, <<>>)
    /\ grouping = NoGrouping
    /\ translate_label = <<>>
    /\ \E sort \in SortChoices, ascending \in BOOLEAN, noImpacts \in BOOLEAN,
          m \in {<<"output", OutputOptions("pdf", <<>>, num)>> : num \in 0..MaxNum}
                \cup {<<"interactive", DefaultOutput>>} :
          /\ noImpacts => sort = DefaultSort /\ ascending
          /\ args = Args(sort, ascending, "both", noImpacts, NoPoi, m[1], m[2])

SpecTables == InitTables /\ [][Next]_vars

(***************************************************************************)
(* SpecRead: readFitInfoFromFile called on its own, with filters.          *)
(***************************************************************************)
PatA == <<"a">>
PatB == <<"b">>
PatAnyB == <<".", "b">>
PatG == <<"g">>
PatH == <<"h">>

FilterLists ==
    {<<>>, <<PatA>>, <<PatB>>, <<PatB, PatAnyB>>, <<PatG>>, <<PatH, PatA>>}

\* three parameters with the impacts 1.0, -2.0 and 0.5
ExampleNuisances ==
    <<Nuisance(<<"a">>, Unit, 0, 0, 5),
      Nuisance(<<"b">>, -2 * Unit, 0, 0, 5),
      Nuisance(<<"c">>, Unit \div 2, 0, 0, 5)>>

ReadProtos == NuisProtos \cup {Nuisance(<<"b">>, 5, 3, 3, Unit),
                               Nuisance(<<"d">>, 40, 7, 0, Unit)}

InitRead ==
    /\ pc = "read"
    /\ pois = <<>>
    /\ ipoi = 0
    /\ inv = NoOutcome
    /\ calls = <<>>
    /\ written = <<>>
    /\ served = 0
    /\ default_extensions = <<>>
    /\ args = Args(DefaultSort, TRUE, "both", FALSE, NoPoi, "output", DefaultOutput)
    /\ fitresult_ref = NoFit
    /\ grouping = NoGrouping
    /\ translate_label \in {<<>>, (<<"a", "b">> :> <<"x">>)}
    /\ \E group \in BOOLEAN :
          /\ \E nuis \in IF group THEN {InputNuisances} ELSE Tables(ReadProtos) \cup {ExampleNuisances},
                groups \in IF group THEN Tables(GroupProtos) ELSE {InputGroups} :
                fitresult = Fit("input", nuis, groups, OneChannel, <<>>)
          /\ \E poi \in {NoPoi, MassPoi},
                grp \in {NoGrouping, {<<"g">>, <<"Total">>, <<"a">>}},
                filters \in FilterLists,
                scale \in {[n |-> 1, d |-> 1], [n |-> 2, d |-> 1]} :
                rd = [called |-> FALSE, poi |-> poi, group |-> group,
                      grouping |-> grp, filters |-> filters, scale |-> scale,
                      df |-> EmptyTable]

\* one call readFitInfoFromFile(rf, filename, poi, group, grouping, filters,
\* scale=scale)
ReadFit ==
    /\ pc = "read"
    /\ rd' = [rd EXCEPT !.called = TRUE,
                        !.df = readFitInfoFromFile(fitresult, rd.poi, rd.group,
                                                   rd.grouping, rd.filters,
                                                   rd.scale)]
    /\ pc' = "done"
    /\ UNCHANGED <<args, fitresult, fitresult_ref, grouping, translate_label,
                   pois, ipoi, inv, calls, written, served, default_extensions>>

NextRead == ReadFit

SpecRead == InitRead /\ [][NextRead]_vars

(***************************************************************************)
(* Properties of the table of producePlots (checked under SpecTables).     *)
(***************************************************************************)
\* the last invocation got as far as the merge and holds a table
HoldsTable == calls # <<>> /\ inv.stage \in {"sort", "interactive", "output", "mode"}

HasReference == fitresult_ref.file # "None"

\* the rows of a file that the read of an invocation turns into table rows
FileRows(rf, grouped, poi) ==
    IF grouped
    THEN SelectSeq(rf.groups,
                   LAMBDA r : grouping = NoGrouping \/ r.label \in grouping)
    ELSE SelectSeq(rf.nuis,
                   LAMBDA r : poi = NoPoi \/
                              ~Contains(TranslateLabel(r.label),
                                        Remove(poi, <<"_", "noi">>)))

\* the input table of the last invocation is the grouped one
InputGrouped == inv.group /\ args.output_mode = "output"

InputLabels ==
    {TranslateLabel(r.label) :
        r \in Range(FileRows(fitresult, InputGrouped, inv.poi))}

ReferenceLabels ==
    {TranslateLabel(r.label) :
        r \in Range(FileRows(fitresult_ref, inv.group, inv.poi))}

\* C1: every row of the table of an invocation has absimpact = |impact|,
\* and where the table has pulls (ungrouped input) abspull = |pull|, the
\* rows the merge filled with defaults included.
C1_AbsColumns ==
    HoldsTable =>
        \A k \in DOMAIN inv.df.rows :
            LET r == inv.df.rows[k]
            IN  /\ IsFinite(r.impact) /\ IsFinite(r.absimpact)
                /\ r.absimpact.v = Abs(r.impact.v)
                /\ "pull" \in inv.df.cols =>
                       /\ IsFinite(r.pull) /\ IsFinite(r.abspull)
                       /\ r.abspull.v = Abs(r.pull.v)

\* C1 witness: an ungrouped merged table with a row of negative impact and
\* non-zero pull and a row only the reference has, filled with defaults.
C1_Witness ==
    /\ HoldsTable /\ HasReference /\ ~inv.group
    /\ \E k \in DOMAIN inv.df.rows :
          inv.df.rows[k].impact.v < 0 /\ inv.df.rows[k].pull.v < 0
    /\ \E k \in DOMAIN inv.df.rows :
          /\ inv.df.rows[k].label \in ReferenceLabels \ InputLabels
          /\ inv.df.rows[k].impact_ref.v > 0

\* C3: a label that only the reference table has gets exactly one row of the
\* merged table, whose current-side fields hold the defaults: 0 in the
\* numeric columns, the neutral colour in impact_color.
C3_ReferenceOnlyRow ==
    (HoldsTable /\ HasReference) =>
        \A l \in ReferenceLabels \ InputLabels :
            /\ Cardinality({k \in DOMAIN inv.df.rows : inv.df.rows[k].label = l}) = 1
            /\ \A k \in DOMAIN inv.df.rows :
                  inv.df.rows[k].label = l =>
                      /\ inv.df.rows[k].impact_color = NeutralColor
                      /\ \A c \in (IF InputGrouped THEN GroupedColumns
                                   ELSE UngroupedColumns) \ {"label", "impact_color"} :
                            inv.df.rows[k][c] = Fin(0)

\* C3 witness: an ungrouped invocation whose reference has the label d, which
\* the input file has not, and whose reference row is not all defaults.
C3_Witness ==
    /\ HoldsTable /\ HasReference /\ ~inv.group
    /\ <<"d">> \in ReferenceLabels \ InputLabels
    /\ \E k \in DOMAIN inv.df.rows :
          /\ inv.df.rows[k].label = <<"d">>
          /\ inv.df.rows[k].absimpact_ref.v > 0
          /\ inv.df.rows[k].impact_color_ref = PositiveColor

\* the sort key column of the last invocation
SortColumn == SortName(args.sort)

\* C4 (as claimed): with a reference file and ungrouped tables, every sort
\* field <col>_diff that parseArgs accepts gives a <col>_diff column whose
\* values are non-negative and equal |<col> - <col>_ref|.
C4_DiffColumnOfEveryChoice ==
    (HoldsTable /\ HasReference /\ ~inv.group /\ args.sort.sfx = "diff") =>
        /\ inv.stage # "sort"
        /\ SortColumn \in inv.df.cols
        /\ \A k \in DOMAIN inv.df.rows :
              LET r == inv.df.rows[k]
              IN  /\ IsFinite(r[SortColumn])
                  /\ r[SortColumn].v >= 0
                  /\ r[SortColumn].v =
                         Abs(r[args.sort.key].v - r[args.sort.key \o "_ref"].v)

\* the rows the output stage left out of the plot, and the rows it kept
NumKept == Len(inv.plotted)
NumDropped == Len(inv.df.rows) - Len(inv.plotted)

\* the row limit cut the table of the last invocation
Truncating ==
    /\ calls # <<>> /\ inv.stage = "output"
    /\ args.num >= 1 /\ args.num < Len(inv.df.rows)

\* no row of the plot sorts before a row left out / after a row left out
KeptAreLargest ==
    \A i \in 1..NumDropped, j \in (NumDropped + 1)..Len(inv.df.rows) :
        ~CellLess(SortColumn, inv.df.rows[j][SortColumn], inv.df.rows[i][SortColumn])

KeptAreSmallest ==
    \A i \in 1..NumDropped, j \in (NumDropped + 1)..Len(inv.df.rows) :
        ~CellLess(SortColumn, inv.df.rows[i][SortColumn], inv.df.rows[j][SortColumn])

PlottedAreLastRows ==
    /\ NumKept = args.num
    /\ \A j \in 1..NumKept : inv.plotted[j] = inv.df.rows[NumDropped + j]

\* C7 (as claimed): the plotted table is the last N rows of the sorted table
\* and these are the N largest under the sort key, for either direction.
C7_LastRowsAreLargest ==
    Truncating => PlottedAreLastRows /\ KeptAreLargest

\* C7 (amended): the plotted table is the last N rows of the sorted table;
\* they are the N largest under the sort key when the sort is ascending and
\* the N smallest when it is descending.
C7_LastRowsInSortOrder ==
    Truncating =>
        /\ PlottedAreLastRows
        /\ args.ascending => KeptAreLargest
        /\ ~args.ascending => KeptAreSmallest

\* C7 witness: a descending sort cut to one row that is strictly smaller than
\* a row left out.
C7_Witness ==
    /\ Truncating /\ ~args.ascending /\ args.num = 1
    /\ \E i \in 1..NumDropped :
          CellLess(SortColumn, inv.plotted[1][SortColumn], inv.df.rows[i][SortColumn])

\* the table is ordered by the sort key in the requested direction
OrderedBySortColumn ==
    \A i, j \in DOMAIN inv.df.rows :
        i < j =>
            IF args.ascending
            THEN ~CellLess(SortColumn, inv.df.rows[j][SortColumn],
                           inv.df.rows[i][SortColumn])
            ELSE ~CellLess(SortColumn, inv.df.rows[i][SortColumn],
                           inv.df.rows[j][SortColumn])

\* C8 (as claimed): with a reference file and ungrouped tables, every sort
\* field <col>_both that parseArgs accepts gives a <col>_both column that is
\* the larger (ascending) or the smaller (descending) of <col> and
\* <col>_ref, and the table is ordered by it in the requested direction.
C8_BothColumnOfEveryChoice ==
    (HoldsTable /\ HasReference /\ ~inv.group /\ args.sort.sfx = "both") =>
        /\ inv.stage # "sort"
        /\ SortColumn \in inv.df.cols
        /\ \A k \in DOMAIN inv.df.rows :
              LET r == inv.df.rows[k]
                  cur == r[args.sort.key].v
                  ref == r[args.sort.key \o "_ref"].v
              IN  r[SortColumn].v =
                      IF args.ascending
                      THEN (IF cur >= ref THEN cur ELSE ref)
                      ELSE (IF cur <= ref THEN cur ELSE ref)
        /\ OrderedBySortColumn

(***************************************************************************)
(* Properties of readFitInfoFromFile (checked under SpecRead).             *)
(***************************************************************************)
\* the rows of the file the call of rd reads, and the labels of its table
RawRows == ReadImpactsPoi(fitresult, rd.group)

TableLabels == [k \in DOMAIN rd.df.rows |-> rd.df.rows[k].label]

LabelsOf(rows) == [k \in DOMAIN rows |-> TranslateLabel(rows[k].label)]

\* the label matches at least one of the filters of the call
MatchesSomeFilter(label) ==
    \E k \in DOMAIN rd.filters : ReMatch(rd.filters[k], label)

\* the call selects by grouping / drops the rows of the POI
SelectsByGrouping == rd.group /\ rd.grouping # NoGrouping

DropsPoi == ~rd.group /\ rd.poi # NoPoi

NamesPoi(label) ==
    Contains(TranslateLabel(label), Remove(rd.poi, <<"_", "noi">>))

\* C2 (as claimed): the table has exactly the rows whose label matches at
\* least one filter, in input order, and every row when no filter is given.
C2_ExactlyTheMatchingRows ==
    rd.called =>
        TableLabels =
            LabelsOf(SelectSeq(RawRows,
                LAMBDA r : rd.filters = <<>> \/ MatchesSomeFilter(r.label)))

\* C2 (amended): the table has, in input order, exactly the rows whose label
\* matches at least one filter (every row when no filter is given), less the
\* rows outside the grouping when a grouped call has one, and less the rows
\* whose label contains the POI name when an ungrouped call has a POI.
C2_MatchingRowsLessGroupingAndPoi ==
    rd.called =>
        TableLabels =
            LabelsOf(SelectSeq(RawRows,
                LAMBDA r : /\ rd.filters = <<>> \/ MatchesSomeFilter(r.label)
                           /\ SelectsByGrouping => r.label \in rd.grouping
                           /\ DropsPoi => ~NamesPoi(r.label)))

\* C2 witness: a call with two filters that kept a row matching only one of
\* them and dropped a row matching neither.
C2_Witness ==
    /\ rd.called /\ Len(rd.filters) = 2 /\ ~rd.group
    /\ \E k \in DOMAIN RawRows :
          /\ TranslateLabel(RawRows[k].label) \in Range(TableLabels)
          /\ \E i \in DOMAIN rd.filters : ~ReMatch(rd.filters[i], RawRows[k].label)
    /\ \E k \in DOMAIN RawRows :
          /\ ~MatchesSomeFilter(RawRows[k].label)
          /\ TranslateLabel(RawRows[k].label) \notin Range(TableLabels)

\* C5: in an ungrouped table every row whose constraint is 1 has newpull
\* 999, whatever its pull, and no row has an infinite or undefined newpull.
C5_NewPullSentinel ==
    (rd.called /\ ~rd.group) =>
        \A k \in DOMAIN rd.df.rows :
            /\ rd.df.rows[k].newpull.k = "fin"
            /\ rd.df.rows[k].constraint = Fin(Unit) =>
                   rd.df.rows[k].newpull.v = Sentinel * Unit

\* C5 witness: a table with a row at constraint 1 and pull 0 and a row at
\* constraint 1 and a pull that is not 0, both at the sentinel.
C5_Witness ==
    /\ rd.called /\ ~rd.group
    /\ \E i, j \in DOMAIN rd.df.rows :
          /\ rd.df.rows[i].constraint = Fin(Unit) /\ rd.df.rows[i].pull = Fin(0)
          /\ rd.df.rows[j].constraint = Fin(Unit) /\ rd.df.rows[j].pull # Fin(0)
          /\ rd.df.rows[i].newpull = Fin(Sentinel * Unit)
          /\ rd.df.rows[j].newpull = Fin(Sentinel * Unit)

\* the row is in the table of the call
Kept(r) == TranslateLabel(r.label) \in Range(TableLabels)

\* C6 (as claimed): when filters or a grouping are supplied, a row is kept
\* if its label matches at least one filter or is in the grouping, and
\* dropped if neither holds.
C6_KeptIfEitherCondition ==
    (rd.called /\ (rd.filters # <<>> \/ rd.grouping # NoGrouping)) =>
        \A k \in DOMAIN RawRows :
            Kept(RawRows[k]) <=>
                \/ MatchesSomeFilter(RawRows[k].label)
                \/ RawRows[k].label \in rd.grouping

\* C6 (amended): a row is kept only if it meets every condition supplied:
\* its label matches at least one filter when filters are given, and, in a
\* grouped call with a grouping, its label is in the grouping; an ungrouped
\* call ignores the grouping (and drops the rows of its POI).
C6_KeptIfEveryCondition ==
    rd.called =>
        \A k \in DOMAIN RawRows :
            Kept(RawRows[k]) <=>
                /\ rd.filters # <<>> => MatchesSomeFilter(RawRows[k].label)
                /\ SelectsByGrouping => RawRows[k].label \in rd.grouping
                /\ DropsPoi => ~NamesPoi(RawRows[k].label)

\* C6 witness: a grouped call with filters and a grouping that dropped a row
\* of the grouping that matches no filter and kept a row that meets both.
C6_Witness ==
    /\ rd.called /\ SelectsByGrouping /\ rd.filters # <<>>
    /\ \E k \in DOMAIN RawRows :
          /\ RawRows[k].label \in rd.grouping
          /\ ~MatchesSomeFilter(RawRows[k].label)
          /\ ~Kept(RawRows[k])
    /\ \E k \in DOMAIN RawRows :
          /\ RawRows[k].label \in rd.grouping
          /\ MatchesSomeFilter(RawRows[k].label)
          /\ Kept(RawRows[k])

(***************************************************************************)
(* Properties of the runs of the main program (checked under Spec).        *)
(***************************************************************************)
\* the output mode is neither of the two the program has
FatalMode == args.output_mode \notin {"interactive", "output"}

\* the POI asks for the luminosity of the one channel and there is not one
FatalChannels(poi) ==
    /\ poi # NoPoi
    /\ PoiType(poi) \in {<<"pmaskedexp">>, <<"sumxsec">>}
    /\ Cardinality(DOMAIN ChannelInfo(fitresult)) # 1

\* C9: an invocation under a fatal configuration (an output mode that is
\* neither interactive nor output, or a POI of type pmaskedexp or sumxsec
\* with a number of channels other than one) ends in an error, writes no
\* file, starts no server, and is the last invocation of the run.
C9_FatalConfiguration ==
    \A k \in DOMAIN calls :
        (FatalMode \/ FatalChannels(calls[k].poi)) =>
            /\ k = Len(calls)
            /\ pc = "error"
            /\ inv.error # "none"
            /\ inv.writes = <<>> /\ inv.served = 0
            /\ \A w \in DOMAIN written : written[w].call # k

\* C9 witness: a run that plotted one POI and wrote its files, then stopped
\* at the next POI on the number of channels, with a POI still to come or
\* the grouped plot of this one not made.
C9_Witness ==
    /\ Len(calls) >= 2 /\ pc = "error"
    /\ FatalChannels(calls[Len(calls)].poi)
    /\ ~FatalChannels(calls[1].poi)
    /\ inv.error = "NotImplementedError"
    /\ written # <<>>

\* C9 witness for the output mode: the first invocation of a run without an
\* output mode stopped at the end of producePlots.
C9_WitnessMode ==
    /\ FatalMode /\ Len(calls) = 1 /\ pc = "error"
    /\ inv.error = "ValueError" /\ inv.stage = "mode"

\* the extensions the command line asks for
RequestedExtensions == {x.e : x \in Range(Extensions(args))}

\* the name the files of the last invocation are to have, less the extension
ExpectedName ==
    Outdir \o args.outputFile.stem \o
    (IF inv.group THEN <<"_", "group">> ELSE <<>>) \o
    (IF inv.poi # NoPoi THEN <<"_">> \o inv.poi ELSE <<>>)

\* C10 (as claimed): an invocation in output mode writes one file per
\* requested extension, each once, under the output path without extension
\* plus _group for a grouped table plus _<poi> for a POI.
C10_OneWritePerExtension ==
    (calls # <<>> /\ inv.stage = "output" /\ inv.error = "none") =>
        /\ \A e \in RequestedExtensions :
              Cardinality({k \in DOMAIN inv.writes : inv.writes[k].ext = e}) = 1
        /\ \A k \in DOMAIN inv.writes :
              /\ inv.writes[k].ext \in RequestedExtensions
              /\ inv.writes[k].name = ExpectedName

(***************************************************************************)
(* The impacts of readFitInfoFromFile (checked under SpecRead).            *)
(***************************************************************************)
\* the rows of the file the call of rd retains, in input order
RetainedRows ==
    SelectSeq(RawRows,
        LAMBDA r : /\ rd.filters = <<>> \/ MatchesSomeFilter(r.label)
                   /\ SelectsByGrouping => r.label \in rd.grouping
                   /\ DropsPoi => ~NamesPoi(r.label))

\* C11: the table has one row per retained input row, in input order; its
\* impact is the raw impact times the scale, its label the (translated)
\* label of the same input position, its absimpact the absolute value.
C11_ScaledImpacts ==
    rd.called =>
        /\ Len(rd.df.rows) = Len(RetainedRows)
        /\ \A k \in DOMAIN rd.df.rows :
              /\ rd.df.rows[k].impact.k = "fin"
              /\ rd.df.rows[k].impact.v * rd.scale.d =
                     RetainedRows[k].impact.v * rd.scale.n
              /\ rd.df.rows[k].label = TranslateLabel(RetainedRows[k].label)
              /\ rd.df.rows[k].absimpact.v =
                     Abs(RetainedRows[k].impact.v * rd.scale.n) \div rd.scale.d

\* C11 witness: the impacts 1.0, -2.0, 0.5 of a, b, c read with scale 2 give
\* the impacts 2.0, -4.0, 1.0 and the absolute impacts 2.0, 4.0, 1.0.
C11_Witness ==
    /\ rd.called /\ rd.scale = [n |-> 2, d |-> 1]
    /\ [k \in DOMAIN RawRows |-> RawRows[k].impact.v] =
           <<Unit, -2 * Unit, Unit \div 2>>
    /\ TableLabels = <<<<"a">>, <<"b">>, <<"c">>>>
    /\ [k \in DOMAIN rd.df.rows |-> rd.df.rows[k].impact.v] =
           <<2 * Unit, -4 * Unit, Unit>>
    /\ [k \in DOMAIN rd.df.rows |-> rd.df.rows[k].absimpact.v] =
           <<2 * Unit, 4 * Unit, Unit>>

(***************************************************************************)
(* The html file of a truncated plot (checked under Spec).                 *)
(***************************************************************************)
\* the last invocation cut its table for the plot, with html and at least
\* one other extension asked for
TruncatingWithHtml ==
    /\ calls # <<>> /\ inv.stage = "output"
    /\ args.num # 0 /\ args.num < Size(inv.df)
    /\ "html" \in RequestedExtensions
    /\ RequestedExtensions # {"html"}

\* the labels of the whole table, and of its last args.num rows
FullLabels == [k \in DOMAIN inv.df.rows |-> inv.df.rows[k].label]

TruncatedLabels ==
    IF args.num >= Len(inv.df.rows) THEN FullLabels
    ELSE [j \in 1..args.num |->
             inv.df.rows[Len(inv.df.rows) - args.num + j].label]

\* C12: when an invocation in output mode truncates its table and html is
\* requested together with another extension, every html file it writes
\* shows the full table and every other file the truncated table, and each
\* requested extension is written; this holds for every invocation of a
\* run, whatever was written before it.
C12_HtmlFromFullTable ==
    TruncatingWithHtml =>
        /\ \A k \in DOMAIN inv.writes :
              inv.writes[k].fig = IF inv.writes[k].ext = "html"
                                  THEN FullLabels ELSE TruncatedLabels
        /\ inv.error = "none" =>
              \A e \in RequestedExtensions :
                  \E k \in DOMAIN inv.writes : inv.writes[k].ext = e

\* C12 witness: the second invocation of a run, after the files of the
\* first, wrote an html file of all its rows and a pdf file of fewer rows.
C12_Witness ==
    /\ TruncatingWithHtml /\ Len(calls) >= 2 /\ inv.error = "none"
    /\ args.num < Len(inv.df.rows)
    /\ \E w \in DOMAIN written : written[w].call < Len(calls)
    /\ \E i, j \in DOMAIN inv.writes :
          /\ inv.writes[i].ext = "html" /\ Len(inv.writes[i].fig) = Len(inv.df.rows)
          /\ inv.writes[j].ext = "pdf" /\ Len(inv.writes[j].fig) = args.num

(***************************************************************************)
(* The invocations of a run, in order (checked under Spec).                *)
(***************************************************************************)
\* the POIs of the run: the one of --poi, or those of the fit result
RunPoiList == IF args.poi # NoPoi THEN <<args.poi>> ELSE fitresult.pois

\* the invocations a run over the POIs ps makes when none of them raises
RECURSIVE ExpectedCalls(_)
ExpectedCalls(ps) ==
    IF ps = <<>> THEN <<>>
    ELSE (IF args.mode \in {"both", "ungrouped"}
          THEN <<[poi |-> Head(ps), group |-> FALSE]>> ELSE <<>>)
         \o (IF args.mode \in {"both", "group"}
             THEN <<[poi |-> Head(ps), group |-> TRUE]>> ELSE <<>>)
         \o ExpectedCalls(Tail(ps))

\* C13: with --noImpacts the run invokes producePlots once, with no POI and
\* ungrouped, and ends, whatever the mode and the POI option; without it the
\* invocations are, POI by POI in the order of the POIs, the ungrouped plot
\* (modes both and ungrouped) and then the grouped plot (modes both and
\* group), up to the end of the list or to the first invocation that raises.
C13_InvocationOrder ==
    IF args.noImpacts
    THEN /\ pc \in {"main", "done", "error"}
         /\ calls = IF pc = "main" THEN <<>>
                    ELSE <<[poi |-> NoPoi, group |-> FALSE]>>
    ELSE /\ Len(calls) <= Len(ExpectedCalls(RunPoiList))
         /\ calls = SubSeq(ExpectedCalls(RunPoiList), 1, Len(calls))
         /\ pc = "done" => calls = ExpectedCalls(RunPoiList)

\* C13 witness: a run in mode both over two POIs that made the ungrouped
\* and then the grouped plot of the first, then those of the second.
C13_Witness ==
    /\ ~args.noImpacts /\ args.mode = "both" /\ pc = "done"
    /\ Len(calls) = 4
    /\ calls[1].poi = calls[2].poi /\ ~calls[1].group /\ calls[2].group
    /\ calls[3].poi = calls[4].poi /\ ~calls[3].group /\ calls[4].group
    /\ calls[1].poi # calls[3].poi
    /\ <<calls[1].poi, calls[3].poi>> = fitresult.pois

\* C13 witness for --noImpacts: a run with --noImpacts, mode group and a
\* POI option that ended after its one ungrouped invocation without POI.
C13_WitnessNoImpacts ==
    /\ args.noImpacts /\ args.mode = "group" /\ args.poi # NoPoi
    /\ pc = "done" /\ calls = <<[poi |-> NoPoi, group |-> FALSE]>>

====
